---- MODULE Spec2Model ----
(***************************************************************************)
(* Model of the finance-audit backend: the CSV ingestion engine            *)
(* (CSVProcessor + DatabaseManager), the category schema view              *)
(* (DatasetService), the HTTP routes over them (APIRoutes) and the         *)
(* WebSocket connection manager with its chat history.                     *)
(*                                                                         *)
(* The subsystems share no state, so each has a specification of its own:  *)
(* Spec (ingestion and schema registry), SpecApi (the read routes over     *)
(* them), SpecLife (ingestion over restarts of the process), SpecChat      *)
(* (streaming sessions and chat history), SpecManager (the connection      *)
(* managers under direct calls), SpecInfer (column type inference),        *)
(* SpecColumns (column names of a created table) and SpecListing (the two  *)
(* walks of the dataset directory).                                        *)
(*                                                                         *)
(* In those, a call of process_csv_files is one step. Three further        *)
(* specifications take it line by line: SpecRace (calls from two threads), *)
(* SpecWriter (one thread and an external writer of the files) and         *)
(* SpecServe (the call on the event loop beside the other handlers).       *)
(***************************************************************************)
EXTENDS Integers, Sequences, FiniteSets, TLC

VARIABLES
    fs,                 \* the dataset directory: path -> file content, or Absent
    file_hashes,        \* CSVProcessor.file_hashes: path -> last imported hash
    initialized,        \* CSVProcessor.initialized
    table_models,       \* DatabaseManager.table_models: table name -> schema
    table_rows,         \* rows stored per table in the database
    db_tables,          \* the tables of the database file: name -> column names
    table_origin,       \* per registered table, the file it was created from (history)
    lastSync,           \* what the latest process_csv_files call did (history)
    quiet,              \* TRUE iff no file changed since the latest call ended
    response,           \* the latest HTTP response
    nWrites,            \* number of file system changes so far
    nSyncs,             \* number of process_csv_files calls so far
    nRestarts,          \* number of times the process was started again
    active_connections, \* ConnectionManager.active_connections
    chat_history,       \* ConnectionManager.chat_history: client id -> entries
    sessions,           \* websocket handlers: socket -> position of the handler
    appended,           \* per client id, the entries handed to add_to_history (history)
    clock,              \* datetime.now(), advanced by every add_to_history call
    nMsgs,              \* number of messages received over all sessions
    lastCall,           \* the latest direct call of a ConnectionManager method
    lastExchange,       \* the latest message handled: socket, client, outcome (history)
    series,             \* a CSV column as read from the file: its cells, top down
    inferred,           \* the storage type inferred for series, None before
    header,             \* the header row of a CSV file: its column names as written
    created,            \* the outcome of building the table class for header
    tree,               \* a dataset directory handed to the two directory walks
    listing,            \* what get_csv_files and get_dataset_categories return for tree
    calls               \* per thread, the process_csv_files call it is executing

ingestVars == <<fs, file_hashes, initialized, table_models, table_rows,
                db_tables, table_origin, lastSync, quiet, response, nWrites,
                nSyncs, nRestarts>>
chatVars == <<active_connections, chat_history, sessions, appended,
              clock, nMsgs, lastCall, lastExchange>>
inferVars == <<series, inferred, header, created>>
listVars == <<tree, listing>>
raceVars == <<calls>>
vars == <<ingestVars, chatVars, inferVars, listVars, raceVars>>

---------------------------------------------------------------------------
(* Bounds of the model *)

MaxWrites == 3      \* file system changes
MaxSyncs == 2       \* process_csv_files calls
MaxApiWrites == 2   \* file system changes when the read routes are explored
MaxMsgs == 6        \* messages received over all websocket sessions
MaxCellLen == 2     \* characters of a CSV cell
MaxCells == 2       \* cells of a CSV column
MaxNameLen == 2     \* characters of a column name in a header row
MaxCols == 2        \* columns of a header row
MaxRestarts == 1    \* restarts of the process
MaxLifeWrites == 2  \* file system changes when restarts are explored
MaxRaceCalls == 2   \* process_csv_files calls when their steps are explored
MaxRaceWrites == 1  \* file system changes while calls are being executed
MaxServeMsgs == 1   \* messages received while the steps of a call are explored

---------------------------------------------------------------------------
(* Python dict helpers *)

None == "None"
EmptyDict == [k \in {} |-> 0]

\* d[k] = v
Put(d, k, v) == [x \in DOMAIN d \cup {k} |-> IF x = k THEN v ELSE d[x]]

---------------------------------------------------------------------------
(* The dataset directory *)

\* No file at a path
Absent == [h |-> 0, rows |-> 0, cols |-> EmptyDict, fault |-> "absent"]

\* The paths of the model: two files of one category, and a file of another
\* category whose base name equals one of them.
Paths == { [dir |-> "Fraud",   file |-> "x.csv"],
           [dir |-> "Revenue", file |-> "x.csv"],
           [dir |-> "Revenue", file |-> "Y.csv"] }

\* os.path.basename(self.dataset_path)
DatasetRoot == "LLMDataset"

\* Further entries a dataset directory can have: a .csv file in the dataset
\* root, a hidden .csv file, a file that is no .csv file, and a directory
\* without .csv files
OtherPaths == { [dir |-> DatasetRoot, file |-> "r.csv"],
                [dir |-> "Fraud",     file |-> ".h.csv"],
                [dir |-> "Fraud",     file |-> "n.txt"],
                [dir |-> "Notes",     file |-> "n.txt"] }

TreePaths == Paths \cup OtherPaths

\* The order in which os.walk yields the entries (top down, the root
\* first; otherwise arbitrary, but the same on every walk of an unchanged
\* tree).
WalkOrder == << [dir |-> DatasetRoot, file |-> "r.csv"],
                [dir |-> "Fraud",     file |-> "x.csv"],
                [dir |-> "Fraud",     file |-> ".h.csv"],
                [dir |-> "Fraud",     file |-> "n.txt"],
                [dir |-> "Revenue",   file |-> "x.csv"],
                [dir |-> "Revenue",   file |-> "Y.csv"],
                [dir |-> "Notes",     file |-> "n.txt"] >>

\* file.endswith('.csv')
endswith_csv(file) == file \in {"x.csv", "Y.csv", "r.csv", ".h.csv"}

\* file.startswith('.')
startswith_dot(file) == file \in {".h.csv"}

FileNames == {p.file : p \in Paths}

\* os.path.basename(csv_file)
Basename(p) == p.file

\* os.path.splitext(os.path.basename(csv_path))[0].lower()
TableName(file) ==
    CASE file = "x.csv" -> "x"
      [] file = "Y.csv" -> "y"

TableNames == {TableName(f) : f \in FileNames}

\* File contents. h identifies the bytes (the MD5 digest), rows is the number
\* of data rows pandas reads, cols maps each normalized column name to the
\* storage type inferred for it, and fault says at which step handling this
\* content raises:
\*   "hash"   open() fails in calculate_file_hash (unreadable file)
\*   "read"   pd.read_csv raises (malformed or empty file)
\*   "create" building the table class raises in create_table_from_csv,
\*            before the class is stored (a column name the declarative
\*            class cannot take); not reached when the table exists already
\*   "insert" adding the rows or the commit raises (a value the column
\*            cannot store); the session is closed without a commit, so no
\*            row of the file stays
Contents ==
    { [h |-> 1, rows |-> 1, cols |-> [amount |-> "INTEGER"], fault |-> "none"],
      [h |-> 2, rows |-> 2, cols |-> [amount |-> "INTEGER"], fault |-> "none"],
      [h |-> 3, rows |-> 1, cols |-> [amount |-> "FLOAT", note |-> "VARCHAR"],
                                                              fault |-> "none"],
      [h |-> 4, rows |-> 0, cols |-> EmptyDict, fault |-> "hash"],
      [h |-> 5, rows |-> 0, cols |-> EmptyDict, fault |-> "read"],
      [h |-> 6, rows |-> 1, cols |-> [amount |-> "INTEGER"], fault |-> "create"],
      [h |-> 7, rows |-> 1, cols |-> [amount |-> "INTEGER"], fault |-> "insert"] }

\* CSVProcessor.get_csv_files: every existing file whose name ends with
\* .csv and does not start with a dot, in walk order. files is the directory:
\* its entries (DOMAIN files) and what each holds.
get_csv_files(files) ==
    SelectSeq(WalkOrder,
              LAMBDA p : /\ p \in DOMAIN files
                         /\ files[p] # Absent
                         /\ endswith_csv(p.file)
                         /\ ~startswith_dot(p.file))

\* CSVProcessor.calculate_file_hash, for a file that can be opened
calculate_file_hash(c) == c.h

---------------------------------------------------------------------------
(* DatabaseManager *)

\* A faulty variant of SchemaOf: the class is stored when only the 'id'
\* column has been defined
SchemaIdOnly(c) == [col \in {"id"} |-> "INTEGER"]

\* create_table_from_csv: the 'id' primary key plus one column per CSV column
SchemaOf(c) ==
    [col \in {"id"} \cup DOMAIN c.cols |->
        IF col = "id" THEN "INTEGER" ELSE c.cols[col]]

\* A faulty variant of RegisterTable: the registry is replaced by one that
\* holds the new table only
RegisterOnlyTable(models, t, c) == Put(EmptyDict, t, SchemaOf(c))

\* create_table_from_csv stores the model class under the table name
RegisterTable(models, t, c) == Put(models, t, SchemaOf(c))

\* table_model(**record): a keyword that is no column of the model is a TypeError
RecordFits(schema, c) == DOMAIN c.cols \subseteq DOMAIN schema

\* A faulty variant of TableMissing: the table is built on every import
TableAlwaysMissing(models, t) == TRUE

\* The test of line 88: the table is built only when its name is not a key
\* of table_models
TableMissing(models, t) == t \notin DOMAIN models

\* table_class.__table__.create(bind=engine, checkfirst=True): the table is
\* made with the columns of the class unless the database file has a table
\* of that name already, which is then left as it is
CreateTable(db, t, schema) ==
    IF t \in DOMAIN db THEN db ELSE Put(db, t, DOMAIN schema)

\* The INSERT of a record names every column of the model class; a column
\* the stored table lacks is an OperationalError
ColumnsStored(stored, schema) == DOMAIN schema \subseteq stored

\* A faulty variant of InsertRows: the rows of the file replace those of the
\* table
ReplaceRows(rows, t, n) == [rows EXCEPT ![t] = n]

\* session.add for every record, then commit: each record is a new row
InsertRows(rows, t, n) == [rows EXCEPT ![t] = @ + n]

\* A faulty variant of SessionClosed: the records added to the session are
\* stored although the commit did not succeed
SessionClosedStored(rows, t, pending) == [rows EXCEPT ![t] = @ + pending]

\* An exception inside 'with self.SessionLocal() as session' (lines 92-96)
\* closes the session. The records were only added to the session (no flush
\* before commit), and a commit that raises rolls its transaction back, so
\* none of the pending records is a row of the table.
SessionClosed(rows, t, pending) == rows

\* import_csv_data(csv_path) on content c. Result: ok (FALSE: it raised),
\* n (the value returned), and the registry, the tables of the database file
\* and the row counts it leaves behind.
import_csv_data(models, db, rows, p, c) ==
    LET t == TableName(Basename(p))
        raised(m, d, pending) ==
            [ok |-> FALSE, n |-> 0, models |-> m, db |-> d,
             rows |-> SessionClosed(rows, t, pending)]
    IN  IF c.fault = "read" THEN raised(models, db, 0)
        ELSE IF TableMissing(models, t) /\ c.fault = "create"
        THEN raised(models, db, 0)
        ELSE LET m1 == IF TableMissing(models, t)
                       THEN RegisterTable(models, t, c) ELSE models
                 d1 == IF TableMissing(models, t)
                       THEN CreateTable(db, t, m1[t]) ELSE db
             IN  IF c.rows > 0 /\ ~RecordFits(m1[t], c) THEN raised(m1, d1, 0)
                 ELSE IF c.rows > 0 /\ ~ColumnsStored(d1[t], m1[t])
                 THEN raised(m1, d1, c.rows)
                 ELSE IF c.rows > 0 /\ c.fault = "insert"
                 THEN raised(m1, d1, c.rows)
                 ELSE [ok |-> TRUE, n |-> c.rows, models |-> m1, db |-> d1,
                       rows |-> InsertRows(rows, t, c.rows)]

\* get_table_names
get_table_names(models) == DOMAIN models

\* get_table_schema: the schema, or ValueError for an unknown table
get_table_schema(models, t) ==
    IF t \notin DOMAIN models
    THEN [ok |-> FALSE, error |-> "ValueError", schema |-> EmptyDict]
    ELSE [ok |-> TRUE, error |-> None, schema |-> models[t]]

---------------------------------------------------------------------------
(* DatabaseManager._infer_column_type over the column pandas hands it *)

\* The characters of a cell: a digit, the decimal point, a letter
Chars == {"1", ".", "a"}

\* A cell is the text between two separators; the empty text is a missing
\* value
Cells == UNION {[1..n -> Chars] : n \in 0..MaxCellLen}

\* A column is the cells of its data rows
Columns == UNION {[1..n -> Cells] : n \in 0..MaxCells}

CountOf(cell, ch) == Cardinality({i \in 1..Len(cell) : cell[i] = ch})

\* pd.read_csv: an empty cell is NaN
IsNull(cell) == cell = <<>>

\* pd.read_csv: a cell converts to int64 when it is a run of digits
ParsesAsInt(cell) == Len(cell) > 0 /\ CountOf(cell, "1") = Len(cell)

\* pd.read_csv: a cell converts to float64 when it is digits with at most one
\* decimal point ("1.", ".1" and "1.1" do, "." does not)
ParsesAsFloat(cell) ==
    /\ CountOf(cell, "1") > 0
    /\ CountOf(cell, ".") <= 1
    /\ CountOf(cell, "a") = 0

\* The dtype pd.read_csv gives a column: int64 needs every cell to be an
\* integer and none missing; a missing value turns a numeric column into
\* float64 (NaN), so a column of missing values only is float64; anything
\* else, a column without rows included, is object
read_csv_dtype(col) ==
    LET present == {i \in 1..Len(col) : ~IsNull(col[i])}
    IN  IF Len(col) = 0 THEN "object"
        ELSE IF \A i \in 1..Len(col) : ParsesAsInt(col[i]) THEN "int64"
        ELSE IF \A i \in present : ParsesAsFloat(col[i]) THEN "float64"
        ELSE "object"

\* _infer_column_type: Integer, Float or String by the dtype of the series;
\* the names are those get_table_schema reports (str(column.type))
infer_column_type(dtype) ==
    IF dtype = "int64" THEN "INTEGER"
    ELSE IF dtype = "float64" THEN "FLOAT"
    ELSE "VARCHAR"

\* create_table_from_csv, line 41, for one column of the file
InferColumnType ==
    /\ inferred = None
    /\ inferred' = infer_column_type(read_csv_dtype(series))
    /\ UNCHANGED <<series, header, created>>
    /\ UNCHANGED <<ingestVars, chatVars, listVars, raceVars>>

---------------------------------------------------------------------------
(* DatabaseManager.create_table_from_csv: from the header row to the columns
   of the table class *)

\* The characters of a column name: an upper-case letter, two lower-case
\* letters and the space
NameChars == {"I", "i", "d", " "}

\* A column name as written in the header row; it has a character that is
\* not a space
RawNames ==
    {n \in UNION {[1..k -> NameChars] : k \in 1..MaxNameLen} :
        \E i \in 1..Len(n) : n[i] # " "}

\* A header row: pd.read_csv hands out distinct column names (it renames a
\* repeated name), so the names of a header differ as written
Headers ==
    {h \in UNION {[1..k -> RawNames] : k \in 0..MaxCols} :
        \A i, j \in 1..Len(h) : i # j => h[i] # h[j]}

\* str.strip(): the spaces at both ends go
RECURSIVE strip(_)
strip(name) ==
    IF name = <<>> THEN <<>>
    ELSE IF Head(name) = " " THEN strip(Tail(name))
    ELSE IF name[Len(name)] = " " THEN strip(SubSeq(name, 1, Len(name) - 1))
    ELSE name

\* str.lower()
lower(name) == [i \in 1..Len(name) |-> IF name[i] = "I" THEN "i" ELSE name[i]]

\* str.replace(' ', '_')
replace_spaces(name) ==
    [i \in 1..Len(name) |-> IF name[i] = " " THEN "_" ELSE name[i]]

\* Line 40: col.strip().lower().replace(' ', '_')
col_name(raw) == replace_spaces(lower(strip(raw)))

\* Lines 35-42: the list of Column objects, the 'id' primary key first. A
\* column is its name and the header position it comes from (0 for 'id').
ColumnList(h) ==
    <<[name |-> <<"i", "d">>, from |-> 0]>> \o
    [i \in 1..Len(h) |-> [name |-> col_name(h[i]), from |-> i]]

\* Line 54: {col.name: col for col in columns}. A name that occurs more than
\* once keeps the column that comes last in the list.
ColumnDict(columns) ==
    [n \in {columns[i].name : i \in 1..Len(columns)} |->
        LET last == CHOOSE i \in 1..Len(columns) :
                       /\ columns[i].name = n
                       /\ \A j \in 1..Len(columns) :
                             columns[j].name = n => j <= i
        IN  columns[last].from]

\* Lines 48-56: the class is built from the dict. Its 'id' attribute must be
\* the primary key column; when a column of the file has taken that name
\* the mapper finds no primary key and raises.
create_table_class(h) ==
    LET attrs == ColumnDict(ColumnList(h))
    IN  IF attrs[<<"i", "d">>] # 0
        THEN [ok |-> FALSE, error |-> "ArgumentError", columns |-> EmptyDict]
        ELSE [ok |-> TRUE, error |-> None, columns |-> attrs]

\* create_table_from_csv has not been called
NoClass == [ok |-> FALSE, error |-> "notcalled", columns |-> EmptyDict]

\* create_table_from_csv for a file with the header row header
CreateTableClass ==
    /\ created = NoClass
    /\ created' = create_table_class(header)
    /\ UNCHANGED <<series, inferred, header>>
    /\ UNCHANGED <<ingestVars, chatVars, listVars, raceVars>>

---------------------------------------------------------------------------
(* CSVProcessor.process_csv_files *)

\* The test of line 45: import on the first call, or when the hash differs
NeedsImport(init, hashes, p, h) ==
    ~init \/ p \notin DOMAIN hashes \/ hashes[p] # h

\* A faulty variant of HashesAfterFailure: the hash is recorded although the
\* import failed
HashesRecordedOnFailure(hashes, p, h) == Put(hashes, p, h)

\* The except branch leaves file_hashes alone
HashesAfterFailure(hashes, p, h) == hashes

\* The success branch records the hash computed before the import
HashesAfterSuccess(hashes, p, h) == Put(hashes, p, h)

\* A file that is skipped gets no entry in import_stats
StatsAfterSkip(stats, name) == stats

\* The file a table was created from: an import that finds the table name
\* missing from table_models and leaves it registered has created it
OriginAfter(origin, before, after, p) ==
    LET t == TableName(Basename(p))
    IN  IF TableMissing(before, t) /\ t \in DOMAIN after
        THEN Put(origin, t, p) ELSE origin

\* One iteration of the loop over csv_files. st is the state of the call:
\* the tracker, the registry, the database, import_stats, what happened to
\* each path (out), and whether the call has raised.
ProcessFile(st, p, c, init) ==
    IF c.fault = "hash"
    THEN [st EXCEPT !.raised = TRUE,
                    !.out[p] = [res |-> "hashfail", n |-> 0]]
    ELSE LET h == calculate_file_hash(c)
             name == Basename(p)
         IN  IF NeedsImport(init, st.hashes, p, h)
             THEN LET r == import_csv_data(st.models, st.db, st.rows, p, c)
                  IN  IF r.ok
                      THEN [st EXCEPT
                              !.stats = Put(@, name, r.n),
                              !.hashes = HashesAfterSuccess(@, p, h),
                              !.models = r.models,
                              !.db = r.db,
                              !.rows = r.rows,
                              !.origin = OriginAfter(@, st.models, r.models, p),
                              !.out[p] = [res |-> "imported", n |-> r.n]]
                      ELSE [st EXCEPT
                              !.stats = Put(@, name, 0),
                              !.hashes = HashesAfterFailure(@, p, h),
                              !.models = r.models,
                              !.db = r.db,
                              !.rows = r.rows,
                              !.origin = OriginAfter(@, st.models, r.models, p),
                              !.out[p] = [res |-> "failed", n |-> 0]]
             ELSE [st EXCEPT
                     !.stats = StatsAfterSkip(@, name),
                     !.out[p] = [res |-> "skipped", n |-> 0]]

\* The loop: files are handled one after the other; an exception that
\* escapes an iteration ends the call.
RECURSIVE ProcessFrom(_, _, _, _)
ProcessFrom(files, st, dir, init) ==
    IF files = <<>> \/ st.raised THEN st
    ELSE ProcessFrom(Tail(files),
                     ProcessFile(st, Head(files), dir[Head(files)], init),
                     dir, init)

NoOutcome == [res |-> "notreached", n |-> 0]

\* The whole call on the current state
process_csv_files ==
    ProcessFrom(get_csv_files(fs),
                [hashes |-> file_hashes, models |-> table_models,
                 db |-> db_tables, rows |-> table_rows,
                 origin |-> table_origin,
                 stats |-> EmptyDict, raised |-> FALSE,
                 out |-> [p \in Paths |-> NoOutcome]],
                fs, initialized)

\* The state a call leaves: side effects stay also when the call raises,
\* initialized is set only when the loop ran to its end.
SyncEffects(st) ==
    /\ file_hashes' = st.hashes
    /\ table_models' = st.models
    /\ table_rows' = st.rows
    /\ db_tables' = st.db
    /\ table_origin' = st.origin
    /\ initialized' = (IF st.raised THEN initialized ELSE TRUE)
    /\ lastSync' = [status |-> IF st.raised THEN "raised" ELSE "returned",
                    stats |-> st.stats,
                    out |-> st.out]
    /\ quiet' = TRUE
    /\ nSyncs' = nSyncs + 1
    /\ UNCHANGED <<fs, nWrites, nRestarts>>

---------------------------------------------------------------------------
(* Actions of the ingestion side *)

\* No method of a ConnectionManager has been called directly
NoCall == [op |-> "none", impl |-> None, ws |-> None, raised |-> FALSE]

\* No message has been handled on any session
NoExchange == [ws |-> None, client |-> None, kind |-> "none"]

\* No request has been answered since the state last changed
NoResponse == [route |-> "none", arg |-> None, status |-> 0, body |-> None]

\* An external writer creates or replaces a file of the dataset
WriteFile(p, c) ==
    /\ nWrites < MaxWrites
    /\ fs[p] # c
    /\ fs' = [fs EXCEPT ![p] = c]
    /\ quiet' = FALSE
    /\ nWrites' = nWrites + 1
    /\ response' = NoResponse
    /\ UNCHANGED <<file_hashes, initialized, table_models, table_rows,
                   db_tables, table_origin, lastSync, nSyncs, nRestarts>>
    /\ UNCHANGED <<chatVars, inferVars, listVars, raceVars>>

\* An external writer removes a file of the dataset
DeleteFile(p) ==
    /\ nWrites < MaxWrites
    /\ fs[p] # Absent
    /\ fs' = [fs EXCEPT ![p] = Absent]
    /\ quiet' = FALSE
    /\ nWrites' = nWrites + 1
    /\ response' = NoResponse
    /\ UNCHANGED <<file_hashes, initialized, table_models, table_rows,
                   db_tables, table_origin, lastSync, nSyncs, nRestarts>>
    /\ UNCHANGED <<chatVars, inferVars, listVars, raceVars>>

\* A direct call of process_csv_files (startup_event, monitor_changes)
ProcessCsvFiles ==
    /\ nSyncs < MaxSyncs
    /\ SyncEffects(process_csv_files)
    /\ response' = NoResponse
    /\ UNCHANGED <<chatVars, inferVars, listVars, raceVars>>

NoSync == [status |-> "none", stats |-> EmptyDict,
           out |-> [p \in Paths |-> NoOutcome]]

\* The process ends and is started again: every object is constructed anew
\* (CSVProcessor.__init__, DatabaseManager.__init__, ConnectionManager.__init__),
\* while the dataset directory and the database file stay as they are
Restart ==
    /\ nRestarts < MaxRestarts
    /\ nRestarts' = nRestarts + 1
    /\ file_hashes' = EmptyDict
    /\ initialized' = FALSE
    /\ table_models' = EmptyDict
    /\ table_origin' = EmptyDict
    /\ lastSync' = NoSync
    /\ quiet' = FALSE
    /\ response' = NoResponse
    /\ active_connections' = <<>>
    /\ chat_history' = EmptyDict
    /\ sessions' = EmptyDict
    /\ appended' = EmptyDict
    /\ UNCHANGED <<fs, table_rows, db_tables, nWrites, nSyncs, clock, nMsgs,
                   lastCall, lastExchange>>
    /\ UNCHANGED <<inferVars, listVars, raceVars>>

---------------------------------------------------------------------------
(* CSVProcessor.get_dataset_categories and DatasetService *)

Dirs == {p.dir : p \in Paths}

\* Line 64: the files of directory d whose name ends with .csv
FilesIn(files, d) ==
    {p.file : p \in {q \in DOMAIN files : /\ q.dir = d
                                          /\ files[q] # Absent
                                          /\ endswith_csv(q.file)}}

\* get_dataset_categories: every directory other than the root that holds
\* at least one .csv file, with the names of its .csv files
get_dataset_categories(files) ==
    [d \in {e \in {p.dir : p \in DOMAIN files} :
                e # DatasetRoot /\ FilesIn(files, e) # {}} |->
        FilesIn(files, d)]

\* Neither walk has been made
NoListing == [done |-> FALSE, files |-> <<>>, categories |-> EmptyDict]

\* get_csv_files and get_dataset_categories on the same directory
ListDataset ==
    /\ ~listing.done
    /\ listing' = [done |-> TRUE,
                   files |-> get_csv_files(tree),
                   categories |-> get_dataset_categories(tree)]
    /\ UNCHANGED tree
    /\ UNCHANGED <<ingestVars, chatVars, inferVars, raceVars>>

\* The loop of get_category_table_schemas: the schema of each file's table,
\* a table that get_table_schema does not know being skipped
CategoryTables(models, names) ==
    LET known == {TableName(f) : f \in names} \cap DOMAIN models
    IN  [t \in known |-> get_table_schema(models, t).schema]

\* DatasetService.get_category_table_schemas: HTTPException(404) for a
\* category that get_dataset_categories does not list
get_category_table_schemas(files, models, category) ==
    LET categories == get_dataset_categories(files)
    IN  IF category \notin DOMAIN categories
        THEN [ok |-> FALSE, error |-> "HTTPException", code |-> 404,
              tables |-> EmptyDict]
        ELSE [ok |-> TRUE, error |-> None, code |-> 0,
              tables |-> CategoryTables(models, categories[category])]

---------------------------------------------------------------------------
(* APIRoutes *)

\* A faulty variant of SchemaRouteStatus: ValueError is reported like any
\* other exception
SchemaRouteStatusAll500(r) == IF r.ok THEN 200 ELSE 500

\* GET /api/tables/{table_name}/schema: ValueError becomes 404, any other
\* exception 500
SchemaRouteStatus(r) ==
    IF r.ok THEN 200 ELSE IF r.error = "ValueError" THEN 404 ELSE 500

\* GET /api/dataset/{category}/tables: every exception of the service call,
\* its HTTPException(404) included, is caught by 'except Exception' and
\* raised again as HTTPException(500)
CategoryRouteStatus(r) == IF r.ok THEN 200 ELSE 500

\* POST /api/dataset/sync: 500 when process_csv_files raised
SyncRouteStatus(st) == IF st.raised THEN 500 ELSE 200

TableArgs == TableNames \cup {"nosuch"}
CategoryArgs == Dirs \cup {"Nosuch"}

GetTableSchema(t) ==
    /\ LET r == get_table_schema(table_models, t)
       IN  response' = [route |-> "schema", arg |-> t,
                        status |-> SchemaRouteStatus(r),
                        body |-> IF r.ok THEN r.schema ELSE EmptyDict]
    /\ response' # response
    /\ UNCHANGED <<fs, file_hashes, initialized, table_models, table_rows,
                   db_tables, table_origin, lastSync, quiet, nWrites, nSyncs,
                   nRestarts>>
    /\ UNCHANGED <<chatVars, inferVars, listVars, raceVars>>

GetCategoryTables(category) ==
    /\ LET r == get_category_table_schemas(fs, table_models, category)
       IN  response' = [route |-> "category", arg |-> category,
                        status |-> CategoryRouteStatus(r),
                        body |-> r.tables]
    /\ response' # response
    /\ UNCHANGED <<fs, file_hashes, initialized, table_models, table_rows,
                   db_tables, table_origin, lastSync, quiet, nWrites, nSyncs,
                   nRestarts>>
    /\ UNCHANGED <<chatVars, inferVars, listVars, raceVars>>

SyncDataset ==
    /\ nSyncs < MaxSyncs
    /\ LET st == process_csv_files
       IN  /\ SyncEffects(st)
           /\ response' = [route |-> "sync", arg |-> None,
                           status |-> SyncRouteStatus(st),
                           body |-> IF st.raised THEN EmptyDict ELSE st.stats]
    /\ UNCHANGED <<chatVars, inferVars, listVars, raceVars>>

\* The state after construction of the application objects
InitProgram ==
    /\ fs = [p \in Paths |-> Absent]
    /\ file_hashes = EmptyDict
    /\ initialized = FALSE
    /\ table_models = EmptyDict
    /\ table_rows = [t \in TableNames |-> 0]
    /\ db_tables = EmptyDict
    /\ table_origin = EmptyDict
    /\ lastSync = NoSync
    /\ quiet = FALSE
    /\ response = NoResponse
    /\ nWrites = 0
    /\ nSyncs = 0
    /\ nRestarts = 0
    /\ active_connections = <<>>
    /\ chat_history = EmptyDict
    /\ sessions = EmptyDict
    /\ appended = EmptyDict
    /\ clock = 0
    /\ nMsgs = 0
    /\ lastCall = NoCall
    /\ lastExchange = NoExchange

\* No process_csv_files call is being executed by the thread. A call is
\* its position (pc), how it ended (status), the part of csv_files still to
\* handle (the first being the file of the current iteration), current_hash,
\* the DataFrame import_csv_data has read (df), and per path what the call
\* did with it (out) and the exception its import raised (error).
NoCallRunning == [pc |-> "idle", status |-> "none", files |-> <<>>,
                  hash |-> 0, df |-> Absent,
                  out |-> [p \in Paths |-> NoOutcome],
                  error |-> [p \in Paths |-> None]]

\* The threads that call process_csv_files: the one that runs the event
\* loop (startup_event, sync_dataset) and the one that runs monitor_changes,
\* which blocks in watch() for as long as the process lives
Threads == {"loop", "monitor"}

\* A directory without entries
EmptyTree == [p \in TreePaths |-> Absent]

\* The part of the state the pure-function specifications and the call
\* steps work on, at rest
InitRest ==
    /\ tree = EmptyTree
    /\ listing = NoListing
    /\ calls = [T \in Threads |-> NoCallRunning]

Init ==
    /\ InitProgram
    /\ series = <<>>
    /\ inferred = None
    /\ header = <<>>
    /\ created = NoClass
    /\ InitRest

Next ==
    \/ \E p \in Paths, c \in Contents : WriteFile(p, c)
    \/ \E p \in Paths : DeleteFile(p)
    \/ ProcessCsvFiles
    \/ SyncDataset

\* The ingestion engine and POST /api/dataset/sync
Spec == Init /\ [][Next]_vars

NextApi ==
    \/ \E p \in Paths, c \in Contents :
          WriteFile(p, c) /\ nWrites' <= MaxApiWrites
    \/ \E p \in Paths : DeleteFile(p) /\ nWrites' <= MaxApiWrites
    \/ ProcessCsvFiles
    \/ SyncDataset
    \/ \E t \in TableArgs : GetTableSchema(t)
    \/ \E category \in CategoryArgs : GetCategoryTables(category)

\* The ingestion engine with the read routes over it
SpecApi == Init /\ [][NextApi]_vars

NextLife ==
    \/ \E p \in Paths, c \in Contents :
          WriteFile(p, c) /\ nWrites' <= MaxLifeWrites
    \/ \E p \in Paths : DeleteFile(p) /\ nWrites' <= MaxLifeWrites
    \/ ProcessCsvFiles
    \/ SyncDataset
    \/ Restart

\* The ingestion engine over several lifetimes of the process
SpecLife == Init /\ [][NextLife]_vars

---------------------------------------------------------------------------
(* ConnectionManager and the websocket route *)

Clients == {"alice", "bob"}

\* The message text of a request. One text is enough: the timestamp tells
\* the entries of a history apart.
Messages == {"q1"}
Sockets == {"ws1", "ws2"}

\* list.remove(x): the first occurrence is dropped; ValueError when absent
RECURSIVE Remove(_, _)
Remove(seq, x) ==
    IF seq = <<>> THEN <<>>
    ELSE IF Head(seq) = x THEN Tail(seq)
    ELSE <<Head(seq)>> \o Remove(Tail(seq), x)

InSeq(seq, x) == \E i \in 1..Len(seq) : seq[i] = x

\* ConnectionManager.connect, after websocket.accept() succeeded
connect(conns, history, ws, client) ==
    [conns |-> Append(conns, ws),
     history |-> IF client \in DOMAIN history THEN history
                 ELSE Put(history, client, <<>>)]

\* ConnectionManager.disconnect: the ValueError of remove() is swallowed
disconnect(conns, ws) == IF InSeq(conns, ws) THEN Remove(conns, ws) ELSE conns

\* ConnectionManager.disconnect of main.py: remove() without a handler for
\* its ValueError, which leaves the list as it is and reaches the caller
main_disconnect(conns, ws) ==
    IF InSeq(conns, ws)
    THEN [ok |-> TRUE, error |-> None, conns |-> Remove(conns, ws)]
    ELSE [ok |-> FALSE, error |-> "ValueError", conns |-> conns]

\* A faulty variant of Entry: the role of the message is not kept
EntryWithoutRole(role, content, now) ==
    [role |-> "user", content |-> content, timestamp |-> now]

\* The entry add_to_history stores: the message plus a timestamp
Entry(role, content, now) ==
    [role |-> role, content |-> content, timestamp |-> now]

\* A faulty variant of add_to_history: the entry is put in front
add_to_history_front(history, client, entry) ==
    IF client \in DOMAIN history
    THEN [history EXCEPT ![client] = <<entry>> \o @]
    ELSE history

\* ConnectionManager.add_to_history: appends for a known client id, does
\* nothing for an unknown one; nothing is ever removed
add_to_history(history, client, entry) ==
    IF client \in DOMAIN history
    THEN [history EXCEPT ![client] = Append(@, entry)]
    ELSE history

\* ConnectionManager.get_client_history: chat_history.get(client_id, [])
get_client_history(history, client) ==
    [ok |-> TRUE,
     value |-> IF client \in DOMAIN history THEN history[client] ELSE <<>>]

\* The call log kept beside the store: what add_to_history was handed
Logged(log, client, entry) ==
    IF client \in DOMAIN log
    THEN [log EXCEPT ![client] = Append(@, entry)]
    ELSE Put(log, client, <<entry>>)

\* websocket_endpoint up to the loop: accept the socket and register it. A
\* failing accept() raises out of connect and nothing is registered.
Connect(ws, client, accepted) ==
    /\ ws \notin DOMAIN sessions
    /\ LET r == connect(active_connections, chat_history, ws, client)
       IN  IF accepted
           THEN /\ active_connections' = r.conns
                /\ chat_history' = r.history
                /\ sessions' = Put(sessions, ws,
                                   [client |-> client, state |-> "open"])
           ELSE UNCHANGED <<active_connections, chat_history, sessions>>
    /\ response' = NoResponse
    /\ UNCHANGED <<appended, clock, nMsgs, lastCall, lastExchange>>
    /\ UNCHANGED <<fs, file_hashes, initialized, table_models, table_rows,
                   db_tables, table_origin, lastSync, quiet, nWrites, nSyncs,
                   nRestarts>>
    /\ UNCHANGED <<inferVars, listVars, raceVars>>

\* What ends the handler when a send fails: WebSocketDisconnect is caught by
\* the outer handler, which calls disconnect; any other exception leaves
\* the function with the socket still registered
AfterSend(conns, ws, send) ==
    CASE send = "ok"         -> [state |-> "open",    conns |-> conns]
      [] send = "disconnect" -> [state |-> "closed",  conns |-> disconnect(conns, ws)]
      [] send = "error"      -> [state |-> "crashed", conns |-> conns]

\* One iteration of the receive loop. kind is what the message leads to:
\*   "badjson"  json.loads raises JSONDecodeError
\*   "raw"      execute_audit returns the crew's raw text (a str), so
\*              response.get(...) raises and the except branch answers
\*   "errdict"  execute_audit returns its error dict: the exchange is stored
\* No suspension point lies between the receive and the send, so the
\* iteration is one step. send is the outcome of the final send_json.
HandleMessage(ws, kind, msg, send) ==
    /\ nMsgs < MaxMsgs
    /\ ws \in DOMAIN sessions
    /\ sessions[ws].state = "open"
    /\ nMsgs' = nMsgs + 1
    /\ lastExchange' = [ws |-> ws, client |-> sessions[ws].client,
                        kind |-> kind]
    /\ UNCHANGED lastCall
    /\ LET client == sessions[ws].client
           user == Entry("user", msg, clock + 1)
           assistant == Entry("assistant", "error", clock + 2)
           after == AfterSend(active_connections, ws, send)
       IN  /\ IF kind = "errdict"
              THEN /\ chat_history' =
                        add_to_history(
                            add_to_history(chat_history, client, user),
                            client, assistant)
                   /\ appended' = Logged(Logged(appended, client, user),
                                         client, assistant)
                   /\ clock' = clock + 2
              ELSE UNCHANGED <<chat_history, appended, clock>>
           /\ active_connections' = after.conns
           /\ sessions' = [sessions EXCEPT ![ws].state = after.state]
    /\ response' = NoResponse
    /\ UNCHANGED <<fs, file_hashes, initialized, table_models, table_rows,
                   db_tables, table_origin, lastSync, quiet, nWrites, nSyncs,
                   nRestarts>>
    /\ UNCHANGED <<inferVars, listVars, raceVars>>

\* receive_text raises WebSocketDisconnect: the outer handler unregisters
ClientDisconnect(ws) ==
    /\ ws \in DOMAIN sessions
    /\ sessions[ws].state = "open"
    /\ active_connections' = disconnect(active_connections, ws)
    /\ sessions' = [sessions EXCEPT ![ws].state = "closed"]
    /\ response' = NoResponse
    /\ UNCHANGED <<chat_history, appended, clock, nMsgs, lastCall,
                   lastExchange>>
    /\ UNCHANGED <<fs, file_hashes, initialized, table_models, table_rows,
                   db_tables, table_origin, lastSync, quiet, nWrites, nSyncs,
                   nRestarts>>
    /\ UNCHANGED <<inferVars, listVars, raceVars>>

ClientArgs == Clients \cup {"nobody"}

\* GET /chat/{client_id}/history
GetChatHistory(client) ==
    /\ LET r == get_client_history(chat_history, client)
       IN  response' = [route |-> "history", arg |-> client,
                        status |-> IF r.ok THEN 200 ELSE 500,
                        body |-> r.value]
    /\ response' # response
    /\ UNCHANGED chatVars
    /\ UNCHANGED <<fs, file_hashes, initialized, table_models, table_rows,
                   db_tables, table_origin, lastSync, quiet, nWrites, nSyncs,
                   nRestarts>>
    /\ UNCHANGED <<inferVars, listVars, raceVars>>

NextChat ==
    \/ \E ws \in Sockets, client \in Clients, accepted \in BOOLEAN :
          Connect(ws, client, accepted)
    \/ \E ws \in Sockets, kind \in {"badjson", "raw", "errdict"},
          msg \in Messages, send \in {"ok", "disconnect", "error"} :
          HandleMessage(ws, kind, msg, send)
    \/ \E ws \in Sockets : ClientDisconnect(ws)
    \/ \E client \in ClientArgs : GetChatHistory(client)

\* The streaming sessions and the chat history
SpecChat == Init /\ [][NextChat]_vars

\* The ConnectionManager as an object: its methods called directly, in any
\* order and for any connection. The repository has two classes of that
\* name, in websockets/connection_manager.py and in main.py, with the same
\* fields and the same connect; they differ in disconnect, and either
\* disconnect can be the one called on the manager's state. accept() fails
\* for a connection that is registered (it was accepted before) and may fail
\* for any other.
ManagerConnect(ws, client, accepted) ==
    /\ LET r == connect(active_connections, chat_history, ws, client)
           ok == accepted /\ ~InSeq(active_connections, ws)
       IN  /\ active_connections' = IF ok THEN r.conns ELSE active_connections
           /\ chat_history' = IF ok THEN r.history ELSE chat_history
           /\ lastCall' = [op |-> "connect", impl |-> "connection_manager",
                           ws |-> ws, raised |-> ~ok]
    /\ UNCHANGED <<sessions, appended, clock, nMsgs, lastExchange>>
    /\ UNCHANGED <<ingestVars, inferVars, listVars, raceVars>>

\* manager.disconnect(websocket) of websockets/connection_manager.py
ManagerDisconnect(ws) ==
    /\ active_connections' = disconnect(active_connections, ws)
    /\ lastCall' = [op |-> "disconnect", impl |-> "connection_manager",
                    ws |-> ws, raised |-> FALSE]
    /\ UNCHANGED <<chat_history, sessions, appended, clock, nMsgs,
                   lastExchange>>
    /\ UNCHANGED <<ingestVars, inferVars, listVars, raceVars>>

\* manager.disconnect(websocket) of main.py
MainDisconnect(ws) ==
    /\ LET r == main_disconnect(active_connections, ws)
       IN  /\ active_connections' = r.conns
           /\ lastCall' = [op |-> "disconnect", impl |-> "main",
                           ws |-> ws, raised |-> ~r.ok]
    /\ UNCHANGED <<chat_history, sessions, appended, clock, nMsgs,
                   lastExchange>>
    /\ UNCHANGED <<ingestVars, inferVars, listVars, raceVars>>

\* The connections the methods are called for
ManagerSockets == Sockets \cup {"ws3"}

NextManager ==
    \/ \E ws \in ManagerSockets, client \in Clients, accepted \in BOOLEAN :
          ManagerConnect(ws, client, accepted)
    \/ \E ws \in ManagerSockets : ManagerDisconnect(ws)
    \/ \E ws \in ManagerSockets : MainDisconnect(ws)

\* The connection managers under direct calls
SpecManager == Init /\ [][NextManager]_vars

InitColumns ==
    /\ InitProgram
    /\ series = <<>>
    /\ inferred = None
    /\ header \in Headers
    /\ created = NoClass
    /\ InitRest

NextColumns == CreateTableClass

\* The columns of the table class over every header row of the bounded set
SpecColumns == InitColumns /\ [][NextColumns]_vars

InitInfer ==
    /\ InitProgram
    /\ series \in Columns
    /\ inferred = None
    /\ header = <<>>
    /\ created = NoClass
    /\ InitRest

NextInfer == InferColumnType

\* Type inference over every column of the bounded value set
SpecInfer == InitInfer /\ [][NextInfer]_vars

\* What an entry of a directory holds when it exists
SomeContent == [h |-> 1, rows |-> 1, cols |-> [amount |-> "INTEGER"],
                fault |-> "none"]

InitListing ==
    /\ InitProgram
    /\ series = <<>>
    /\ inferred = None
    /\ header = <<>>
    /\ created = NoClass
    /\ tree \in [TreePaths -> {Absent, SomeContent}]
    /\ listing = NoListing
    /\ calls = [T \in Threads |-> NoCallRunning]

NextListing == ListDataset

\* The two directory walks over every directory of the bounded set
SpecListing == InitListing /\ [][NextListing]_vars

---------------------------------------------------------------------------
(* process_csv_files step by step, called from more than one thread *)

(* The calls of startup_event and sync_dataset are made by coroutines on the
   thread of the event loop. monitor_changes calls process_csv_files from
   the thread that runs it: watch() blocks, so it cannot run on the event
   loop. Both threads work on the same CSVProcessor and DatabaseManager.
   A step is a stretch of the call that reads or writes one shared object
   (the dataset directory, the fields of the two objects, the database
   file); the steps of the two threads interleave in any order. *)

\* The file of the current iteration of the call of thread T
CurrentFile(T) == Head(calls[T].files)

\* A faulty variant of EndFile: the loop goes on with the file after the
\* next one
EndFileSkipsNext(call, res, n, err) ==
    LET p == Head(call.files)
        rest == IF Len(call.files) >= 2 THEN Tail(Tail(call.files))
                ELSE Tail(call.files)
    IN  [call EXCEPT !.out[p] = [res |-> res, n |-> n],
                     !.error[p] = err,
                     !.files = rest,
                     !.pc = IF rest = <<>> THEN "finish" ELSE "hash",
                     !.hash = 0,
                     !.df = Absent]

\* The end of an iteration: the outcome is noted and the loop goes on to the
\* next file of csv_files, or leaves the loop
EndFile(call, res, n, err) ==
    LET p == Head(call.files)
    IN  [call EXCEPT !.out[p] = [res |-> res, n |-> n],
                     !.error[p] = err,
                     !.files = Tail(@),
                     !.pc = IF Tail(call.files) = <<>> THEN "finish" ELSE "hash",
                     !.hash = 0,
                     !.df = Absent]

\* An exception that leaves process_csv_files
EndRaised(call, res) ==
    [call EXCEPT !.out[Head(call.files)] = [res |-> res, n |-> 0],
                 !.pc = "idle",
                 !.status = "raised",
                 !.files = <<>>,
                 !.hash = 0,
                 !.df = Absent]

\* open() or pd.read_csv raises for a file that is gone or cannot be read
Unreadable(c) == c = Absent \/ c.fault \in {"hash", "read"}

\* Lines 38-39: the walk of the dataset directory
StartCall(T) ==
    /\ nSyncs < MaxRaceCalls
    /\ calls[T].pc = "idle"
    /\ LET files == get_csv_files(fs)
       IN  calls' = [calls EXCEPT ![T] =
                        [NoCallRunning EXCEPT
                            !.pc = IF files = <<>> THEN "finish" ELSE "hash",
                            !.status = "running",
                            !.files = files]]
    /\ nSyncs' = nSyncs + 1
    /\ response' = NoResponse
    /\ UNCHANGED <<fs, file_hashes, initialized, table_models, table_rows,
                   db_tables, table_origin, lastSync, quiet, nWrites,
                   nRestarts>>
    /\ UNCHANGED <<chatVars, inferVars, listVars>>

\* Lines 42-45: the hash of the file as it is now (an exception here leaves
\* the call), then the test on initialized and file_hashes
HashAndTest(T) ==
    /\ calls[T].pc = "hash"
    /\ LET p == CurrentFile(T)
           c == fs[p]
       IN  calls' = [calls EXCEPT ![T] =
                IF c = Absent \/ c.fault = "hash"
                THEN EndRaised(@, "hashfail")
                ELSE IF NeedsImport(initialized, file_hashes, p,
                                    calculate_file_hash(c))
                THEN [@ EXCEPT !.pc = "read",
                               !.hash = calculate_file_hash(c)]
                ELSE EndFile(@, "skipped", 0, None)]
    /\ response' = NoResponse
    /\ UNCHANGED <<fs, file_hashes, initialized, table_models, table_rows,
                   db_tables, table_origin, lastSync, quiet, nWrites, nSyncs,
                   nRestarts>>
    /\ UNCHANGED <<chatVars, inferVars, listVars>>

\* models.py lines 79-88: import_csv_data reads the file as it is now, then
\* looks the table name up in table_models
ReadAndCheck(T) ==
    /\ calls[T].pc = "read"
    /\ LET p == CurrentFile(T)
           c == fs[p]
           t == TableName(Basename(p))
       IN  calls' = [calls EXCEPT ![T] =
                IF Unreadable(c)
                THEN EndFile(@, "failed", 0, "ReadError")
                ELSE [@ EXCEPT !.df = c,
                               !.pc = IF TableMissing(table_models, t)
                                      THEN "class" ELSE "insert"]]
    /\ response' = NoResponse
    /\ UNCHANGED <<fs, file_hashes, initialized, table_models, table_rows,
                   db_tables, table_origin, lastSync, quiet, nWrites, nSyncs,
                   nRestarts>>
    /\ UNCHANGED <<chatVars, inferVars, listVars>>

\* models.py lines 29-59: create_table_from_csv reads the file once more,
\* builds the class and stores it in table_models. A class of that table
\* name built by another thread in the meantime is no error
\* ('extend_existing': True); its entry is replaced.
CreateClass(T) ==
    /\ calls[T].pc = "class"
    /\ LET p == CurrentFile(T)
           c == fs[p]
           t == TableName(Basename(p))
       IN  IF Unreadable(c) \/ c.fault = "create"
           THEN /\ calls' = [calls EXCEPT ![T] =
                                EndFile(@, "failed", 0, "CreateError")]
                /\ UNCHANGED <<table_models, table_origin>>
           ELSE /\ calls' = [calls EXCEPT ![T].pc = "has_table"]
                /\ table_models' = RegisterTable(table_models, t, c)
                /\ table_origin' =
                      OriginAfter(table_origin, table_models, table_models', p)
    /\ response' = NoResponse
    /\ UNCHANGED <<fs, file_hashes, initialized, table_rows, db_tables,
                   lastSync, quiet, nWrites, nSyncs, nRestarts>>
    /\ UNCHANGED <<chatVars, inferVars, listVars>>

\* models.py line 62, create(checkfirst=True), first statement: the
\* database is asked whether it has the table
HasTable(T) ==
    /\ calls[T].pc = "has_table"
    /\ LET t == TableName(Basename(CurrentFile(T)))
       IN  calls' = [calls EXCEPT ![T].pc =
                        IF t \in DOMAIN db_tables THEN "insert" ELSE "ddl"]
    /\ response' = NoResponse
    /\ UNCHANGED <<fs, file_hashes, initialized, table_models, table_rows,
                   db_tables, table_origin, lastSync, quiet, nWrites, nSyncs,
                   nRestarts>>
    /\ UNCHANGED <<chatVars, inferVars, listVars>>

\* CREATE TABLE (without IF NOT EXISTS): an OperationalError when the
\* database has a table of that name
execute_create(db, t, schema) ==
    IF t \in DOMAIN db
    THEN [ok |-> FALSE, error |-> "TableExists", db |-> db]
    ELSE [ok |-> TRUE, error |-> None, db |-> Put(db, t, DOMAIN schema)]

\* models.py line 62, second statement: the CREATE TABLE that follows a
\* negative answer. Its exception leaves import_csv_data and is caught in
\* process_csv_files (line 51).
CreateDDL(T) ==
    /\ calls[T].pc = "ddl"
    /\ LET t == TableName(Basename(CurrentFile(T)))
           r == execute_create(db_tables, t, table_models[t])
       IN  /\ db_tables' = r.db
           /\ calls' = [calls EXCEPT ![T] =
                           IF r.ok THEN [@ EXCEPT !.pc = "insert"]
                           ELSE EndFile(@, "failed", 0, r.error)]
    /\ response' = NoResponse
    /\ UNCHANGED <<fs, file_hashes, initialized, table_models, table_rows,
                   table_origin, lastSync, quiet, nWrites, nSyncs, nRestarts>>
    /\ UNCHANGED <<chatVars, inferVars, listVars>>

\* models.py lines 92-96: the records of the DataFrame are added to a
\* session and committed in one transaction. The class is the one
\* table_models holds now; the INSERT fails when the database has no table
\* of that name yet.
InsertAndCommit(T) ==
    /\ calls[T].pc = "insert"
    /\ LET t == TableName(Basename(CurrentFile(T)))
           df == calls[T].df
           m == table_models[t]
           pending == IF RecordFits(m, df) THEN df.rows ELSE 0
           err == IF df.rows = 0 THEN None
                  ELSE IF ~RecordFits(m, df) THEN "TypeError"
                  ELSE IF t \notin DOMAIN db_tables THEN "NoSuchTable"
                  ELSE IF ~ColumnsStored(db_tables[t], m) THEN "NoSuchColumn"
                  ELSE IF df.fault = "insert" THEN "InsertError"
                  ELSE None
       IN  IF err # None
           THEN /\ table_rows' = SessionClosed(table_rows, t, pending)
                /\ calls' = [calls EXCEPT ![T] = EndFile(@, "failed", 0, err)]
           ELSE /\ table_rows' = InsertRows(table_rows, t, df.rows)
                /\ calls' = [calls EXCEPT ![T].pc = "record"]
    /\ response' = NoResponse
    /\ UNCHANGED <<fs, file_hashes, initialized, table_models, db_tables,
                   table_origin, lastSync, quiet, nWrites, nSyncs, nRestarts>>
    /\ UNCHANGED <<chatVars, inferVars, listVars>>

\* Lines 48-49: the count is reported and current_hash, computed before the
\* import, is stored for the path
RecordHash(T) ==
    /\ calls[T].pc = "record"
    /\ file_hashes' = HashesAfterSuccess(file_hashes, CurrentFile(T),
                                         calls[T].hash)
    /\ calls' = [calls EXCEPT ![T] =
                    EndFile(@, "imported", calls[T].df.rows, None)]
    /\ response' = NoResponse
    /\ UNCHANGED <<fs, initialized, table_models, table_rows, db_tables,
                   table_origin, lastSync, quiet, nWrites, nSyncs, nRestarts>>
    /\ UNCHANGED <<chatVars, inferVars, listVars>>

\* Lines 55-56: the loop is over
FinishCall(T) ==
    /\ calls[T].pc = "finish"
    /\ initialized' = TRUE
    /\ calls' = [calls EXCEPT ![T].pc = "idle", ![T].status = "returned"]
    /\ response' = NoResponse
    /\ UNCHANGED <<fs, file_hashes, table_models, table_rows, db_tables,
                   table_origin, lastSync, quiet, nWrites, nSyncs, nRestarts>>
    /\ UNCHANGED <<chatVars, inferVars, listVars>>

\* The contents of the files while the steps of calls are explored: two
\* versions with the same columns and different numbers of rows
RaceContents == {c \in Contents : c.h \in {1, 2}}

InitRace ==
    /\ fs \in [Paths -> {Absent} \cup RaceContents]
    /\ file_hashes = EmptyDict
    /\ initialized = FALSE
    /\ table_models = EmptyDict
    /\ table_rows = [t \in TableNames |-> 0]
    /\ db_tables = EmptyDict
    /\ table_origin = EmptyDict
    /\ lastSync = NoSync
    /\ quiet = FALSE
    /\ response = NoResponse
    /\ nWrites = 0
    /\ nSyncs = 0
    /\ nRestarts = 0
    /\ active_connections = <<>>
    /\ chat_history = EmptyDict
    /\ sessions = EmptyDict
    /\ appended = EmptyDict
    /\ clock = 0
    /\ nMsgs = 0
    /\ lastCall = NoCall
    /\ lastExchange = NoExchange
    /\ series = <<>>
    /\ inferred = None
    /\ header = <<>>
    /\ created = NoClass
    /\ InitRest

\* The next step of the call thread T is executing
CallStep(T) ==
    \/ HashAndTest(T)
    \/ ReadAndCheck(T)
    \/ CreateClass(T)
    \/ HasTable(T)
    \/ CreateDDL(T)
    \/ InsertAndCommit(T)
    \/ RecordHash(T)
    \/ FinishCall(T)

NextRace ==
    \/ \E T \in Threads : StartCall(T)
    \/ \E T \in Threads : CallStep(T)

\* Calls of process_csv_files from the event loop and from the monitor
\* thread, in any interleaving of their steps
SpecRace == InitRace /\ [][NextRace]_vars

NextWriter ==
    \/ \E p \in Paths, c \in RaceContents :
          WriteFile(p, c) /\ nWrites' <= MaxRaceWrites
    \/ StartCall("loop")
    \/ CallStep("loop")

\* Calls of process_csv_files from one thread while an external writer
\* replaces files of the dataset directory
SpecWriter == InitRace /\ [][NextWriter]_vars

\* api_routes.py lines 117-128 and application.py lines 113-122: sync_dataset
\* and startup_event are coroutines of the event loop that call
\* process_csv_files directly; there is no await and no executor between
\* the call and its return. The event loop runs one coroutine at a time and
\* switches to another only at an await, so it starts no other handler
\* while the call on its thread stands at one of its steps.
LoopFree == calls["loop"].pc = "idle"

\* GET /api/dataset/schema/{table_name} of another client
ServeTableSchema(t) == LoopFree /\ GetTableSchema(t)

\* A websocket connection of another client
ServeConnect(ws, client, accepted) ==
    LoopFree /\ Connect(ws, client, accepted)

\* A message of a streaming session
ServeMessage(ws, kind, msg, send) ==
    /\ LoopFree
    /\ HandleMessage(ws, kind, msg, send)
    /\ nMsgs' <= MaxServeMsgs

NextServe ==
    \/ StartCall("loop")
    \/ CallStep("loop")
    \/ \E t \in TableArgs : ServeTableSchema(t)
    \/ \E ws \in Sockets, client \in Clients, accepted \in BOOLEAN :
          ServeConnect(ws, client, accepted)
    \/ \E ws \in Sockets, kind \in {"badjson", "raw", "errdict"},
          msg \in Messages, send \in {"ok", "disconnect", "error"} :
          ServeMessage(ws, kind, msg, send)

\* The event loop: process_csv_files called by sync_dataset or
\* startup_event, and the handlers of other clients
SpecServe == InitRace /\ [][NextServe]_vars

---------------------------------------------------------------------------
(* Properties of the ingestion engine *)

\* The files a process_csv_files call scans in the current directory
Scanned == {p \in Paths : fs[p] # Absent}

\* No two scanned files share a base name
UniqueNames == \A p, q \in Scanned : p # q => Basename(p) # Basename(q)

\* A step that is one process_csv_files call (direct or through the route)
SyncStep == nSyncs' = nSyncs + 1

\* file_hashes.get(p), as a set of at most one hash
HashAt(hashes, p) == IF p \in DOMAIN hashes THEN {hashes[p]} ELSE {}

\* C1 (as claimed, over files with distinct names): a process_csv_files call
\* that follows another one with no file system change in between imports
\* zero records for every file and leaves the set of registered tables and
\* every table's row count as they were.
C1_IdempotentResync ==
    [][(quiet /\ UniqueNames /\ SyncStep) =>
          /\ \A p \in Paths : lastSync'.out[p].n = 0
          /\ get_table_names(table_models') = get_table_names(table_models)
          /\ table_rows' = table_rows]_vars

\* C2 (as claimed, for a well-formed new version): a file imported by an
\* earlier call whose content then changed to a well-formed content that fits
\* its table is imported by the next call, and the count reported under its
\* name is the row count of the new content.
C2_ChangeDetection ==
    [][SyncStep =>
          \A p \in Scanned :
             ( /\ p \in DOMAIN file_hashes
               /\ file_hashes[p] # calculate_file_hash(fs[p])
               /\ fs[p].fault = "none"
               /\ RecordFits(table_models[TableName(Basename(p))], fs[p])
               /\ UniqueNames )
             => /\ lastSync'.status = "returned"
                /\ lastSync'.out[p].res = "imported"
                /\ Basename(p) \in DOMAIN lastSync'.stats
                /\ lastSync'.stats[Basename(p)] = fs[p].rows]_vars

\* C3 (as claimed): in the first call of a process, over files with distinct
\* names of which exactly one, K, fails at some step, the call returns a
\* report that maps K to 0 and every other file to its row count.
C3_FaultIsolation ==
    (nSyncs = 1 /\ quiet /\ UniqueNames) =>
        \A K \in Scanned :
           ( /\ fs[K].fault # "none"
             /\ \A p \in Scanned \ {K} : fs[p].fault = "none" )
           => /\ lastSync.status = "returned"
              /\ Basename(K) \in DOMAIN lastSync.stats
              /\ lastSync.stats[Basename(K)] = 0
              /\ \A p \in Scanned \ {K} :
                    /\ lastSync.out[p].res = "imported"
                    /\ Basename(p) \in DOMAIN lastSync.stats
                    /\ lastSync.stats[Basename(p)] = fs[p].rows

\* C4 (as claimed): the report of a call that returned has an entry for
\* every scanned file: 0 for a file skipped as unchanged or failed, the
\* imported row count otherwise; POST /api/dataset/sync returns that report.
C4_ReportComplete ==
    (lastSync.status = "returned" /\ quiet /\ UniqueNames) =>
        /\ \A p \in Scanned :
              /\ Basename(p) \in DOMAIN lastSync.stats
              /\ lastSync.stats[Basename(p)] = lastSync.out[p].n
        /\ (response.route = "sync" =>
               response.status = 200 /\ response.body = lastSync.stats)

\* C5: a process_csv_files call writes file_hashes[p] only for a file whose
\* import succeeded, and then to the hash of the imported content; for every
\* other path, a file whose import failed included, the entry is what it was
\* before the call, so the test of line 45 still selects a failed file.
C5_HashOnlyAfterSuccess ==
    [][SyncStep =>
          \A p \in Paths :
             /\ lastSync'.out[p].res # "imported" =>
                   HashAt(file_hashes', p) = HashAt(file_hashes, p)
             /\ lastSync'.out[p].res = "imported" =>
                   HashAt(file_hashes', p) = {calculate_file_hash(fs[p])}
             /\ lastSync'.out[p].res = "failed" =>
                   NeedsImport(initialized', file_hashes', p,
                               calculate_file_hash(fs[p]))]_vars

\* C5 witness: a file imported by an earlier call failed in the latest call
\* and its earlier hash is still recorded
C5_Witness ==
    \E p \in Scanned :
        /\ quiet
        /\ lastSync.out[p].res = "failed"
        /\ p \in DOMAIN file_hashes
        /\ file_hashes[p] # calculate_file_hash(fs[p])

\* C11: a process_csv_files call leaves the schema (column names and storage
\* types) of every table that was registered before the call as it was, also
\* when the file now has other columns than the table was created with.
C11_SchemaFixedAtCreation ==
    [][SyncStep =>
          \A t \in get_table_names(table_models) :
             /\ t \in get_table_names(table_models')
             /\ get_table_schema(table_models', t).schema =
                   get_table_schema(table_models, t).schema]_vars

\* C11 witness: the second call has imported a new version of a file whose
\* columns differ from those its table was created with, and the table still
\* has the columns of the first version
C11_Witness ==
    /\ nSyncs = 2
    /\ quiet
    /\ UniqueNames
    /\ \E p \in Scanned :
          /\ lastSync.out[p].res = "imported"
          /\ TableName(Basename(p)) \in DOMAIN table_models
          /\ table_models[TableName(Basename(p))] # SchemaOf(fs[p])

\* The tables none of whose files is in the dataset directory
Orphans == {t \in get_table_names(table_models) :
               \A p \in Scanned : TableName(Basename(p)) # t}

\* C17: no step removes a name from the registry: a table that is
\* registered stays in get_table_names and keeps answering get_table_schema,
\* whatever is written to or deleted from the dataset directory and however
\* process_csv_files is called afterwards.
C17_TablesOnlyGrow ==
    [][\A t \in get_table_names(table_models) :
          /\ t \in get_table_names(table_models')
          /\ get_table_schema(table_models', t).ok]_vars

\* C17 witness: a call has run after the only file of a registered table
\* was deleted, another file was imported by it, and the table is still
\* registered
C17_Witness ==
    /\ nSyncs = 2
    /\ quiet
    /\ Orphans # {}
    /\ \E p \in Scanned : lastSync.out[p].res = "imported"

\* The number of records the latest call reported as imported from the
\* files whose table is t
RECURSIVE ImportedInto(_, _, _)
ImportedInto(out, t, paths) ==
    IF paths = {} THEN 0
    ELSE LET p == CHOOSE q \in paths : TRUE
         IN  (IF TableName(Basename(p)) = t THEN out[p].n ELSE 0)
             + ImportedInto(out, t, paths \ {p})

\* C18: a process_csv_files call adds to every table exactly the rows of the
\* files it imported into it: after a file is imported again (its content
\* changed, or the process was started again) the row count of its table is
\* the count before the call plus the row count of the file, the rows of
\* the earlier imports staying; a call that imports nothing adds nothing.
C18_ReimportAppends ==
    [][SyncStep =>
          \A t \in TableNames :
             table_rows'[t] = table_rows[t] + ImportedInto(lastSync'.out, t, Paths)]_vars

\* C18 witness: a file was imported, its content changed, and the next call
\* imported the two rows of the new version on top of the row of the old one
C18_Witness ==
    /\ quiet
    /\ UniqueNames
    /\ \E p \in Scanned :
          /\ lastSync.out[p].res = "imported"
          /\ fs[p].rows = 2
          /\ table_rows[TableName(Basename(p))] = 3

\* schema is the complete column set of content c: the surrogate key 'id'
\* plus every column of the file, each with the type inferred for it
CompleteFor(schema, c) ==
    /\ DOMAIN schema = {"id"} \cup DOMAIN c.cols
    /\ schema["id"] = "INTEGER"
    /\ \A col \in DOMAIN c.cols : schema[col] = c.cols[col]

\* C19 (as claimed): after the import of a file has failed, either no table
\* is registered under the file's table name or the registered table has
\* the complete column set of that file.
C19_NoPartialRegistry ==
    (quiet /\ UniqueNames) =>
        \A p \in Scanned :
           lastSync.out[p].res = "failed" =>
              \/ TableName(Basename(p)) \notin DOMAIN table_models
              \/ CompleteFor(table_models[TableName(Basename(p))], fs[p])

\* C19 (amended): after the import of a file has failed in a call, either no
\* table is registered under the file's table name, or the table was
\* registered before the call and is unchanged, or the table has the
\* complete column set of a file of that name handled by the call.
C19_RegistryAllOrNothing ==
    [][SyncStep =>
          \A p \in Scanned :
             lastSync'.out[p].res = "failed" =>
                LET t == TableName(Basename(p))
                IN  \/ t \notin DOMAIN table_models'
                    \/ /\ t \in DOMAIN table_models
                       /\ table_models'[t] = table_models[t]
                    \/ \E q \in Scanned :
                          /\ TableName(Basename(q)) = t
                          /\ lastSync'.out[q].res \in {"imported", "failed"}
                          /\ CompleteFor(table_models'[t], fs[q])]_vars

\* C19 witness: the first call failed to insert the rows of a file after it
\* had registered the file's table, which has all the columns of the file
C19_Witness ==
    /\ nSyncs = 1
    /\ quiet
    /\ UniqueNames
    /\ \E p \in Scanned :
          /\ lastSync.out[p].res = "failed"
          /\ fs[p].fault = "insert"
          /\ TableName(Basename(p)) \in DOMAIN table_models
          /\ CompleteFor(table_models[TableName(Basename(p))], fs[p])

\* The content of p can be imported in the current state: handling it
\* raises at no step, its columns are columns of its table if that is
\* registered, and of the stored table if the database file has one
Importable(p) ==
    LET t == TableName(Basename(p))
    IN  /\ fs[p].fault = "none"
        /\ t \in DOMAIN table_models => RecordFits(table_models[t], fs[p])
        /\ (t \notin DOMAIN table_models /\ t \in DOMAIN db_tables) =>
               ColumnsStored(db_tables[t], SchemaOf(fs[p]))

\* C13 (as claimed, for files that can be imported): the first
\* process_csv_files call of a process lifetime imports every scanned file,
\* whether or not its content is the one imported in an earlier lifetime,
\* and inserts its rows (again).
C13_FirstCallImportsAll ==
    [][(SyncStep /\ ~initialized /\ file_hashes = EmptyDict /\ UniqueNames) =>
          \A p \in Scanned :
             Importable(p) =>
                /\ lastSync'.out[p].res = "imported"
                /\ table_rows'[TableName(Basename(p))] =
                      table_rows[TableName(Basename(p))] + fs[p].rows]_vars

\* C24 (as claimed): in every sequence of process_csv_files calls on one
\* CSVProcessor, calls that raised included, a call does not import a file
\* whose current hash is the hash recorded for its path in file_hashes.
C24_RecordedNeverReimported ==
    [][SyncStep =>
          \A p \in Scanned :
             ( /\ p \in DOMAIN file_hashes
               /\ file_hashes[p] = calculate_file_hash(fs[p]) )
             => lastSync'.out[p].res # "imported"]_vars

\* C26 (as claimed): two distinct files imported by one call have distinct
\* entries in the report it returns, each holding the count of its own file,
\* and their rows go to distinct tables; files of different category
\* directories with the same base name included.
C26_DistinctFilesDistinctTables ==
    (lastSync.status = "returned" /\ quiet) =>
        \A p, q \in Scanned :
           ( /\ p # q
             /\ lastSync.out[p].res = "imported"
             /\ lastSync.out[q].res = "imported" )
           => /\ Basename(p) # Basename(q)
              /\ lastSync.stats[Basename(p)] = lastSync.out[p].n
              /\ TableName(Basename(p)) # TableName(Basename(q))

\* C27: a call leaves the row count of a table as it was when the import
\* of a file into it failed (at a record or at the commit) and no file was
\* imported into it by that call: none of the rows of the failed attempt is
\* stored, so a later import of the file adds its rows once.
C27_FailedImportStoresNothing ==
    [][SyncStep =>
          \A t \in TableNames :
             ( /\ \E p \in Scanned :
                     /\ TableName(Basename(p)) = t
                     /\ lastSync'.out[p].res = "failed"
               /\ \A p \in Scanned :
                     TableName(Basename(p)) = t =>
                        lastSync'.out[p].res # "imported" )
             => table_rows'[t] = table_rows[t]]_vars

\* C27 witness: a file whose first version was imported got a version
\* whose insert fails; the second call failed on it with all its records
\* added to the session, and the table holds the row of the first version
\* only
C27_Witness ==
    /\ nSyncs = 2
    /\ quiet
    /\ UniqueNames
    /\ \E p \in Scanned :
          /\ lastSync.out[p].res = "failed"
          /\ fs[p].fault = "insert"
          /\ fs[p].rows > 0
          /\ p \in DOMAIN file_hashes
          /\ table_rows[TableName(Basename(p))] = 1

---------------------------------------------------------------------------
(* Properties of overlapping process_csv_files calls *)

\* C21 (as claimed): under any interleaving of two process_csv_files calls,
\* no import fails because the table exists already, and a file that was
\* imported has its table registered and stored under its table name.
C21_CreateToleratesExisting ==
    \A T \in Threads :
        \A p \in Paths :
            /\ calls[T].error[p] # "TableExists"
            /\ calls[T].out[p].res = "imported" =>
                  /\ TableName(Basename(p)) \in DOMAIN table_models
                  /\ TableName(Basename(p)) \in DOMAIN db_tables

\* C22: a call handles the files of its walk strictly one at a time (a step
\* of a call touches the outcome of the file of the current iteration only,
\* and the call goes from a file to exactly the next one of its walk, once
\* that file is imported, failed or skipped), and nothing keeps two calls
\* from overlapping: the witness below is a state in which both have
\* imported the same unchanged file.
C22_OneFileAtATime ==
    [][\A T \in Threads :
          (calls[T].pc # "idle" /\ calls'[T] # calls[T]) =>
             IF calls[T].files = <<>>
             THEN calls'[T].out = calls[T].out /\ calls'[T].files = <<>>
             ELSE LET p == Head(calls[T].files)
                  IN  /\ \A q \in Paths \ {p} :
                            calls'[T].out[q] = calls[T].out[q]
                      /\ \/ calls'[T].files = calls[T].files
                         \/ calls'[T].status = "raised"
                         \/ /\ calls'[T].files = Tail(calls[T].files)
                            /\ calls'[T].out[p].res \in
                                  {"imported", "failed", "skipped"}]_vars

\* C22 witness: two calls that overlapped have both returned, no file has
\* changed since the process started, and both calls imported the same
\* file, whose rows are in its table twice
C22_Witness ==
    /\ nWrites = 0
    /\ UniqueNames
    /\ \A T \in Threads :
          calls[T].pc = "idle" /\ calls[T].status = "returned"
    /\ \E p \in Scanned :
          /\ \A T \in Threads : calls[T].out[p].res = "imported"
          /\ table_rows[TableName(Basename(p))] = 2 * fs[p].rows
          /\ file_hashes[p] = calculate_file_hash(fs[p])

\* C23: while a synchronize called by sync_dataset or startup_event is in
\* progress, the event loop can still serve other clients: a schema request
\* can be answered, and a message of an open streaming session can be
\* handled
C23_LoopServesDuringSync ==
    calls["loop"].status = "running" =>
       /\ ENABLED (\E t \in TableArgs : ServeTableSchema(t))
       /\ \A ws \in DOMAIN sessions :
             (sessions[ws].state = "open" /\ nMsgs < MaxServeMsgs) =>
                ENABLED (\E msg \in Messages :
                            ServeMessage(ws, "raw", msg, "ok"))

\* C25: when a call records the fingerprint of a file it imported
\* (csv_processor.py line 49), the fingerprint is the hash of the content
\* that import_csv_data read and inserted (models.py line 79), also when the
\* file was replaced between line 42 and line 79
C25_HashOfImportedContent ==
    [][\A T \in Threads :
          (calls[T].pc = "record" /\ calls'[T].pc # "record") =>
             file_hashes'[CurrentFile(T)] = calculate_file_hash(calls[T].df)]_vars

---------------------------------------------------------------------------
(* Properties of type inference *)

\* The reference rule: text for a column whose values are all missing;
\* integer if every value that is present parses as an integer; otherwise
\* real if every value that is present parses as a floating-point number;
\* otherwise text
ReferenceType(col) ==
    LET present == {i \in 1..Len(col) : ~IsNull(col[i])}
    IN  IF present = {} THEN "VARCHAR"
        ELSE IF \A i \in present : ParsesAsInt(col[i]) THEN "INTEGER"
        ELSE IF \A i \in present : ParsesAsFloat(col[i]) THEN "FLOAT"
        ELSE "VARCHAR"

\* C12 (as claimed): the storage type inferred for a column is the one the
\* reference rule gives for its values.
C12_TypeInference ==
    inferred # None => inferred = ReferenceType(series)

\* C20 (as claimed): the columns of a table that was created are 'id', from
\* no column of the file, plus the normalized name of every column of the
\* header row; each column of the file has a column of its own (no two are
\* merged into one and none is dropped).
C20_ColumnsNormalizedUnique ==
    created.ok =>
        /\ DOMAIN created.columns =
              {<<"i", "d">>} \cup {col_name(header[i]) : i \in 1..Len(header)}
        /\ created.columns[<<"i", "d">>] = 0
        /\ \A i \in 1..Len(header) :
              \E n \in DOMAIN created.columns : created.columns[n] = i
        /\ Cardinality(DOMAIN created.columns) = 1 + Len(header)

---------------------------------------------------------------------------
(* Properties of the directory walks *)

\* C30 (as claimed): every file name get_dataset_categories lists under a
\* category is a file get_csv_files returns, and every file get_csv_files
\* returns is listed under exactly one category.
C30_ListingAgreesWithScan ==
    listing.done =>
        /\ \A d \in DOMAIN listing.categories :
              \A f \in listing.categories[d] :
                 \E i \in 1..Len(listing.files) :
                    listing.files[i] = [dir |-> d, file |-> f]
        /\ \A i \in 1..Len(listing.files) :
              Cardinality({d \in DOMAIN listing.categories :
                              /\ listing.files[i].dir = d
                              /\ listing.files[i].file \in
                                    listing.categories[d]}) = 1

---------------------------------------------------------------------------
(* Properties of the read routes *)

\* The paths of a category whose import has succeeded at least once: by C5
\* these are the paths that have an entry in file_hashes
ImportedOnce(category) ==
    {p \in Scanned : p.dir = category /\ p \in DOMAIN file_hashes}

\* C8 (as claimed): the schema view of a category lists exactly the tables
\* of those of its files that have been imported successfully at least once.
C8_CategoryOmission ==
    (response.route = "category" /\ response.status = 200) =>
        DOMAIN response.body =
            {TableName(Basename(p)) : p \in ImportedOnce(response.arg)}

\* C9: GET /api/tables/{name}/schema answers 404 for a table name that is not
\* registered and 200 with the column -> storage type mapping (the 'id' key
\* included) for a registered one, and it changes no state of the engine.
C9_SchemaNotFound ==
    [][response'.route = "schema" =>
          /\ response'.arg \notin get_table_names(table_models) =>
                response'.status = 404
          /\ response'.arg \in get_table_names(table_models) =>
                /\ response'.status = 200
                /\ response'.body = table_models[response'.arg]
                /\ "id" \in DOMAIN response'.body
          /\ UNCHANGED <<fs, file_hashes, initialized, table_models,
                         table_rows>>]_vars

\* C9 witness: a schema request for a table that was never created, answered
\* 404 while another table is registered
C9_Witness ==
    /\ response.route = "schema"
    /\ response.arg \in TableNames \ DOMAIN table_models
    /\ response.status = 404
    /\ DOMAIN table_models # {}

\* C10 (as claimed): GET /api/dataset/{category}/tables answers 404 for a
\* category that get_dataset_categories does not list.
C10_CategoryNotFound ==
    (response.route = "category"
        /\ response.arg \notin DOMAIN get_dataset_categories(fs))
    => response.status = 404

\* C28 (as claimed): every table listed in the schema view of a category
\* was created from a file of that category.
C28_CategoryViewOwnTables ==
    (response.route = "category" /\ response.status = 200) =>
        \A t \in DOMAIN response.body :
            /\ t \in DOMAIN table_origin
            /\ table_origin[t].dir = response.arg

---------------------------------------------------------------------------
(* Properties of the chat history *)

\* The history bound N of the specification (in exchanges)
HistoryBound == 5

\* The last n elements of a sequence
LastOf(seq, n) ==
    IF Len(seq) <= n THEN seq ELSE SubSeq(seq, Len(seq) - n + 1, Len(seq))

\* What add_to_history was handed for a client, in call order
AppendedFor(client) ==
    IF client \in DOMAIN appended THEN appended[client] ELSE <<>>

\* C6 (as claimed): the stored history of a client is the most recent
\* min(k, N) of the k exchanges appended for it (two entries per exchange),
\* so it never holds more than N exchanges.
C6_BoundedHistory ==
    \A client \in DOMAIN chat_history :
        /\ chat_history[client] =
              LastOf(AppendedFor(client), 2 * HistoryBound)
        /\ Len(chat_history[client]) <= 2 * HistoryBound

\* C14 (as claimed): disconnect called for a connection that is not in
\* active_connections raises no error and leaves active_connections and
\* chat_history as they are; called for a connection that is present it
\* removes that connection and nothing else.
C14_DisconnectTolerant ==
    [][lastCall'.op = "disconnect" =>
          /\ ~lastCall'.raised
          /\ chat_history' = chat_history
          /\ IF InSeq(active_connections, lastCall'.ws)
             THEN active_connections' =
                     SelectSeq(active_connections,
                               LAMBDA x : x # lastCall'.ws)
             ELSE active_connections' = active_connections]_vars

\* C15 (as claimed): a connection whose session handler has ended, by a
\* disconnect seen while receiving or sending or by any other error, is not
\* in active_connections.
C15_SessionRemoved ==
    \A ws \in DOMAIN sessions :
        sessions[ws].state \in {"closed", "crashed"} =>
            ~InSeq(active_connections, ws)

C29_HistoryAlternates ==
    \A client \in DOMAIN chat_history :
        LET h == chat_history[client]
        IN  /\ Len(h) % 2 = 0
            /\ \A i \in 1..Len(h) :
                  IF i % 2 = 1
                  THEN h[i].role = "user"
                  ELSE /\ h[i].role = "assistant"
                       /\ h[i].timestamp = h[i - 1].timestamp + 1

\* C29 witness: two live sessions use the same client id, whose history
\* holds two exchanges, the latest stored by one of the two sessions
C29_Witness ==
    \E ws1, ws2 \in DOMAIN sessions :
        /\ ws1 # ws2
        /\ sessions[ws1].state = "open"
        /\ sessions[ws2].state = "open"
        /\ sessions[ws1].client = sessions[ws2].client
        /\ Len(chat_history[sessions[ws1].client]) >= 4
        /\ lastExchange.kind = "errdict"
        /\ lastExchange.ws = ws2

\* C7: GET /chat/{client_id}/history always succeeds and returns the entries
\* appended for that client id in the order they were appended, oldest
\* first (timestamps increase along the list); for a client id without
\* entries, connected or not, it returns the empty list.
C7_HistoryInOrder ==
    response.route = "history" =>
        /\ response.status = 200
        /\ response.body = AppendedFor(response.arg)
        /\ \A i, j \in 1..Len(response.body) :
              i < j => response.body[i].timestamp < response.body[j].timestamp

\* C7 witness: a history of two exchanges is read back while the other
\* client has entries of its own
C7_Witness ==
    /\ response.route = "history"
    /\ Len(response.body) >= 4
    /\ \E other \in DOMAIN chat_history :
          other # response.arg /\ chat_history[other] # <<>>

====
